---- MODULE Spec2Model ----
(***************************************************************************)
(* HalCamera (evs/manager/1.1/HalCamera.cpp): the object that owns one     *)
(* hardware camera and multiplexes it between VirtualCamera clients.       *)
(*                                                                         *)
(* Every public method of HalCamera is one action.  The collaborators the  *)
(* file only calls (the hardware camera, the VirtualCamera clients, the    *)
(* timelines) appear as inputs of the actions (the hardware's answer, the  *)
(* clients' accept/reject) and as the record `last` of what the last call  *)
(* returned, asked of the hardware and sent to the clients.                *)
(***************************************************************************)
EXTENDS Integers, Sequences, FiniteSets

\* ------------------------------------------------------------- bounds
NumClients == 2     \* VirtualCamera objects that exist during a run
NumBuffers == 2     \* distinct buffer ids the hardware circulates
MaxFrames == 2      \* frames the hardware delivers during a run
MaxRequests == 2    \* pending requests queued, and fences per timeline
MaxUntracked == 2   \* completion calls accepted for one stale record

\* ---------------------------------------------------------- constants
kThreshold == 16000

Clients == 1..NumClients
NoClient == 0
Buffers == 1..NumBuffers
\* timestamps of requests (lastTimestamp) and of arriving frames
RequestTimes == {0}
FrameTimes == {15999, 16000}

VARIABLES
    \* the VirtualCamera objects, as HalCamera sees them
    life,               \* "new": created, not yet offered to ownVirtualCamera;
                        \* "live": in use; "dead": destroyed by its owner
    streaming,          \* VirtualCamera::isStreaming()
    \* HalCamera's members
    mSyncSupported,
    mClients,           \* std::list<wp<VirtualCamera>>
    mFrames,            \* std::vector<FrameRecord>
    mTimelines,         \* std::map<client, UniqueTimeline>
    mNextRequests,      \* std::deque<FrameRequest>
    mCurrentRequests,
    mStreamState,
    mMaster,            \* wp<VirtualCamera>
    mFramesReceived,
    mFramesNotUsed,
    mSyncFrames,
    refCountUnsigned,   \* the type of FrameRecord::refCount in this build
    crashed,            \* the process died on a null timeline
    \* the hardware and the clients, as far as the calls made to them tell
    hwOwns,             \* hwOwns[b]: buffer b is with the hardware
    outstanding,        \* outstanding[b]: acceptances of b not completed yet
    hwParam,            \* the hardware's value of the camera parameter
    last,               \* the last call: what it returned, asked and sent
    \* calls that other threads are in the middle of
    delivering,         \* deliverFrame_1_1 after its offers, before its
                        \* bookkeeping: <<[frameId, deliveries]>>, else <<>>
    claiming            \* claiming[c]: how far c's setMaster has come

frameVars == <<mFrames, hwOwns, outstanding, mFramesReceived, mFramesNotUsed>>
syncVars == <<mTimelines, mNextRequests, mCurrentRequests, mSyncFrames>>
clientVars == <<life, streaming, mClients>>
fixedVars == <<mSyncSupported, refCountUnsigned>>
threadVars == <<delivering, claiming>>
vars == <<life, streaming, mSyncSupported, mClients, mFrames, mTimelines,
          mNextRequests, mCurrentRequests, mStreamState, mMaster,
          mFramesReceived, mFramesNotUsed, mSyncFrames, refCountUnsigned,
          crashed, hwOwns, outstanding, hwParam, last, delivering, claiming>>

\* ------------------------------------------------- the VirtualCamera side
\* wp<VirtualCamera>::promote() != nullptr
Alive(c) == life[c] # "dead"
\* VirtualCamera::getAllowedBuffers(): the client's declared allowance
getAllowedBuffers(c) == (c % 2) + 1
\* VirtualCamera::getVersion(): 1 for a v1.1 stream, 0 for a v1.0 stream
getVersion(c) == c % 2

\* ------------------------------------------------------------ the log
\* a call to the hardware camera; ok: the call reported success (calls that
\* report nothing are logged with TRUE)
HwCall(f, arg, ok) == [f |-> f, arg |-> arg, ok |-> ok]
Event(to, ev) == [to |-> to, ev |-> ev]
\* op(client, arg, ts) returned ret (and `out` through a reference argument),
\* made the hardware calls hw and the client calls sent, in that order
CallArg(op, client, arg, ts, ret, out, hw, sent) ==
    [op |-> op, client |-> client, arg |-> arg, ts |-> ts, ret |-> ret,
     out |-> out, hw |-> hw, sent |-> sent]
Call(op, client, ret, hw, sent) == CallArg(op, client, 0, 0, ret, 0, hw, sent)

\* ---------------------------------------------------- FrameRecord::refCount
\* The counter is kept as the number the decrements give.  A build with an
\* unsigned counter stores that number modulo 2^32, so a negative number here
\* is a wrapped (huge) count there; the comparisons read it as the build does.
\* `refCount > 0`
IsPositive(r) == IF refCountUnsigned THEN r # 0 ELSE r > 0
\* `refCount <= 0`
NotPositive(r) == IF refCountUnsigned THEN r = 0 ELSE r <= 0

FrameRecord(id, n) == [frameId |-> id, refCount |-> n]

\* ------------------------------------------------- changeFramesInFlight
\* the walk over mClients: dead references add nothing
RECURSIVE LiveAllowance(_)
LiveAllowance(list) ==
    IF list = <<>> THEN 0
    ELSE (IF Alive(Head(list)) THEN getAllowedBuffers(Head(list)) ELSE 0)
         + LiveAllowance(Tail(list))

\* a count that forgets the floor of one buffer
BufferCountNoFloor(list, delta) == LiveAllowance(list) + delta
\* bufferCount after `bufferCount += delta` and the floor
BufferCount(list, delta) ==
    LET n == LiveAllowance(list) + delta IN IF n < 1 THEN 1 ELSE n

\* a resize that starts from an empty table and copies nothing
ActiveRecordsNone(frames) == <<>>
\* "Copy and compact the old records that are still active"
ActiveRecords(frames) == SelectSeq(frames, LAMBDA rec : IsPositive(rec.refCount))

\* a resize that compacts the records whatever the hardware answered
ResizeRecordsAlways(frames, success) == ActiveRecords(frames)
\* `if (success) { ... mFrames.swap(newRecords); }`
ResizeRecords(frames, success) ==
    IF success THEN ActiveRecords(frames) ELSE frames

Range(list) == {list[i] : i \in 1..Len(list)}

\* a removal that leaves the list as it is
RemoveNone(list, c) == list
\* std::list::remove
Remove(list, c) == SelectSeq(list, LAMBDA x : x # c)

\* ------------------------------------------------------------- Init
Init ==
    /\ life = [c \in Clients |-> "new"]
    /\ streaming = [c \in Clients |-> FALSE]
    /\ mSyncSupported \in BOOLEAN
    /\ mClients = <<>>
    /\ mFrames = <<>>
    /\ mTimelines = <<>>
    /\ mNextRequests = <<>>
    /\ mCurrentRequests = <<>>
    /\ mStreamState = "STOPPED"
    /\ mMaster = NoClient
    /\ mFramesReceived = 0
    /\ mFramesNotUsed = 0
    /\ mSyncFrames = 0
    /\ refCountUnsigned \in BOOLEAN
    /\ crashed = FALSE
    /\ hwOwns = [b \in Buffers |-> TRUE]
    /\ outstanding = [b \in Buffers |-> 0]
    /\ hwParam = 0
    /\ last = Call("init", NoClient, "void", <<>>, <<>>)
    /\ delivering = <<>>
    /\ claiming = [c \in Clients |-> "idle"]

\* ------------------------------------------------ ownVirtualCamera
\* mTimelines[id] = make_unique<UniqueTimeline>(0)
NewTimeline(tls, c) ==
    [x \in (DOMAIN tls) \cup {c} |->
        IF x = c THEN [fence |-> 0, tl |-> 0] ELSE tls[x]]
\* mTimelines.erase(id)
EraseTimeline(tls, c) == [x \in (DOMAIN tls) \ {c} |-> tls[x]]

OwnVirtualCamera(c, hwOk) ==
    LET count == BufferCount(mClients, getAllowedBuffers(c))
        ask == <<HwCall("setMaxFramesInFlight", count, hwOk)>>
    IN
    /\ ~crashed
    /\ c # NoClient => life[c] = "new"
    /\ IF c = NoClient
       THEN /\ last' = Call("ownVirtualCamera", c, "false", <<>>, <<>>)
            /\ UNCHANGED <<life, mFrames, mTimelines, mClients>>
       ELSE IF ~hwOk
       THEN \* the caller drops its reference: the object is destroyed
            /\ life' = [life EXCEPT ![c] = "dead"]
            /\ last' = Call("ownVirtualCamera", c, "false", ask, <<>>)
            /\ mFrames' = ResizeRecords(mFrames, hwOk)
            /\ UNCHANGED <<mTimelines, mClients>>
       ELSE /\ life' = [life EXCEPT ![c] = "live"]
            /\ mFrames' = ResizeRecords(mFrames, hwOk)
            /\ mTimelines' = IF mSyncSupported THEN NewTimeline(mTimelines, c)
                             ELSE mTimelines
            /\ mClients' = Append(mClients, c)
            /\ last' = Call("ownVirtualCamera", c, "true", ask, <<>>)
    /\ UNCHANGED <<streaming, fixedVars, threadVars, mNextRequests, mCurrentRequests,
                   mStreamState, mMaster, mFramesReceived, mFramesNotUsed,
                   mSyncFrames, crashed, hwOwns, outstanding, hwParam>>

\* ------------------------------------------------ disownVirtualCamera
DisownVirtualCamera(c, hwOk) ==
    LET rest == Remove(mClients, c)
        count == BufferCount(rest, 0)
        ask == <<HwCall("setMaxFramesInFlight", count, hwOk)>>
    IN
    /\ ~crashed
    /\ c # NoClient => life[c] = "live"
    /\ IF c = NoClient
       THEN /\ last' = Call("disownVirtualCamera", c, "void", <<>>, <<>>)
            /\ UNCHANGED <<mFrames, mClients>>
       ELSE /\ mClients' = rest
            /\ mFrames' = ResizeRecords(mFrames, hwOk)
            /\ last' = Call("disownVirtualCamera", c,
                            IF hwOk THEN "void" ELSE "void-resize-failed", ask, <<>>)
    /\ UNCHANGED <<life, streaming, fixedVars, threadVars, syncVars, mStreamState, mMaster,
                   mFramesReceived, mFramesNotUsed, crashed, hwOwns, outstanding, hwParam>>

\* ------------------------- changeFramesInFlight(buffers, delta)
\* nbuf external buffers are offered; the hardware takes `added` of them
ImportExternalBuffers(nbuf, hwOk, added) ==
    /\ ~crashed
    /\ added \in 0..nbuf
    /\ IF nbuf < 1
       THEN /\ last' = Call("importExternalBuffers", NoClient, "true", <<>>, <<>>)
            /\ UNCHANGED mFrames
       ELSE IF ~hwOk
       THEN /\ last' = Call("importExternalBuffers", NoClient, "false",
                            <<HwCall("importExternalBuffers", nbuf, hwOk)>>, <<>>)
            /\ UNCHANGED mFrames
       ELSE /\ mFrames' = ActiveRecords(mFrames)
            /\ last' = Call("importExternalBuffers", NoClient, "true",
                            <<HwCall("importExternalBuffers", nbuf, hwOk)>>, <<>>)
    /\ UNCHANGED <<clientVars, fixedVars, threadVars, syncVars, mStreamState, mMaster,
                   mFramesReceived, mFramesNotUsed, crashed, hwOwns, outstanding, hwParam>>

\* -------------------------------- a client object is destroyed by its owner
ClientDies(c) ==
    /\ ~crashed
    /\ life[c] = "live"
    /\ life' = [life EXCEPT ![c] = "dead"]
    /\ streaming' = [streaming EXCEPT ![c] = FALSE]
    /\ last' = Call("clientDies", c, "void", <<>>, <<>>)
    /\ UNCHANGED <<mClients, fixedVars, threadVars, mFrames, syncVars, mStreamState, mMaster,
                   mFramesReceived, mFramesNotUsed, crashed, hwOwns, outstanding, hwParam>>

\* ------------------------------------------------------ requestNewFrame
FrameRequest(c, ts) == [client |-> c, timestamp |-> ts]

\* Only a client with a v1.1 stream asks for frames through a fence.
RequestNewFrame(c, lastTimestamp) ==
    /\ ~crashed
    /\ life[c] = "live"
    /\ getVersion(c) > 0
    /\ Len(mNextRequests) < MaxRequests
    /\ c \in DOMAIN mTimelines => mTimelines[c].fence < MaxRequests
    /\ IF ~mSyncSupported
       THEN /\ last' = CallArg("requestNewFrame", c, 0, lastTimestamp, "no-fence", 0,
                               <<>>, <<>>)
            /\ UNCHANGED <<mTimelines, mNextRequests, crashed>>
       ELSE IF c \notin DOMAIN mTimelines
       THEN \* mTimelines[id] is a null unique_ptr: the call dereferences it
            /\ crashed' = TRUE
            /\ last' = CallArg("requestNewFrame", c, 0, lastTimestamp, "crash", 0,
                               <<>>, <<>>)
            /\ UNCHANGED <<mTimelines, mNextRequests>>
       ELSE /\ mTimelines' = [mTimelines EXCEPT ![c].fence = @ + 1]
            /\ mNextRequests' = Append(mNextRequests, FrameRequest(c, lastTimestamp))
            /\ last' = CallArg("requestNewFrame", c, 0, lastTimestamp, "fence", 0,
                               <<>>, <<>>)
            /\ UNCHANGED crashed
    /\ UNCHANGED <<clientVars, fixedVars, threadVars, mFrames, mCurrentRequests, mSyncFrames,
                   mStreamState, mMaster, mFramesReceived, mFramesNotUsed, hwOwns,
                   outstanding, hwParam>>

\* ------------------------------------------------- clientStreamStarting
\* VirtualCamera::startVideoStream marks itself streaming when the call is OK
ClientStreamStarting(c, hwOk) ==
    /\ ~crashed
    /\ life[c] = "live" /\ ~streaming[c]
    /\ IF mStreamState = "STOPPED"
       THEN /\ mStreamState' = "RUNNING"
            /\ streaming' = [streaming EXCEPT ![c] = hwOk]
            /\ last' = Call("clientStreamStarting", c,
                            IF hwOk THEN "OK" ELSE "UNDERLYING_SERVICE_ERROR",
                            <<HwCall("startVideoStream", 0, hwOk)>>, <<>>)
       ELSE /\ UNCHANGED mStreamState
            /\ streaming' = [streaming EXCEPT ![c] = TRUE]
            /\ last' = Call("clientStreamStarting", c, "OK", <<>>, <<>>)
    /\ UNCHANGED <<life, mClients, fixedVars, threadVars, mFrames, syncVars, mMaster,
                   mFramesReceived, mFramesNotUsed, crashed, hwOwns, outstanding, hwParam>>

\* --------------------------------------------------- clientStreamEnding
\* the first request of the client in the queue, or Len + 1
RECURSIVE FirstRequestOf(_, _, _)
FirstRequestOf(reqs, c, i) ==
    IF i > Len(reqs) THEN i
    ELSE IF reqs[i].client = c THEN i
    ELSE FirstRequestOf(reqs, c, i + 1)

RemoveAt(s, i) == SubSeq(s, 1, i - 1) \o SubSeq(s, i + 1, Len(s))

\* the first entry of mClients that promotes to the client, or Len + 1
RECURSIVE FirstClient(_, _, _)
FirstClient(list, c, i) ==
    IF i > Len(list) THEN i
    ELSE IF Alive(list[i]) /\ list[i] = c THEN i
    ELSE FirstClient(list, c, i + 1)

\* "Do we still have a running client?"
StillRunning(list, strm) ==
    \E i \in 1..Len(list) : Alive(list[i]) /\ strm[list[i]]

ClientStreamEnding(c) ==
    LET itReq == FirstRequestOf(mNextRequests, c, 1)
        found == itReq <= Len(mNextRequests)
        itCam == FirstClient(mClients, c, 1)
        rest == IF itCam <= Len(mClients) THEN RemoveAt(mClients, itCam) ELSE mClients
        strm == [streaming EXCEPT ![c] = FALSE]
        stop == ~StillRunning(rest, strm)
    IN
    /\ ~crashed
    /\ life[c] = "live" /\ streaming[c]
    /\ streaming' = strm
    /\ mNextRequests' = IF found THEN RemoveAt(mNextRequests, itReq) ELSE mNextRequests
    /\ mTimelines' = IF found /\ c \in DOMAIN mTimelines
                     THEN EraseTimeline(mTimelines, c) ELSE mTimelines
    /\ mClients' = rest
    /\ mStreamState' = IF stop THEN "STOPPING" ELSE mStreamState
    /\ last' = Call("clientStreamEnding", c, "void",
                    IF stop THEN <<HwCall("stopVideoStream", 0, TRUE)>> ELSE <<>>, <<>>)
    /\ UNCHANGED <<life, fixedVars, threadVars, mFrames, mCurrentRequests, mSyncFrames, mMaster,
                   mFramesReceived, mFramesNotUsed, crashed, hwOwns, outstanding, hwParam>>

\* ---------------------------------------------------------- doneWithFrame
\* the first record with this frameId, or Len + 1
RECURSIVE FrameIndex(_, _, _)
FrameIndex(frames, id, i) ==
    IF i > Len(frames) THEN i
    ELSE IF frames[i].frameId = id THEN i
    ELSE FrameIndex(frames, id, i + 1)

\* both overloads: hwFn is the hardware call that returns the buffer
DoneWithFrame(op, hwFn, b) ==
    LET i == FrameIndex(mFrames, b, 1)
        known == i <= Len(mFrames)
        count == mFrames[i].refCount - 1
        back == known /\ NotPositive(count)
    IN
    /\ ~crashed
    /\ mFrames' = IF known THEN [mFrames EXCEPT ![i].refCount = count] ELSE mFrames
    /\ hwOwns' = IF back THEN [hwOwns EXCEPT ![b] = TRUE] ELSE hwOwns
    /\ outstanding' = [outstanding EXCEPT ![b] = IF @ > 0 THEN @ - 1 ELSE 0]
    /\ last' = CallArg(op, NoClient, b, 0,
                       IF known THEN "void" ELSE "void-unknown-id", 0,
                       IF back THEN <<HwCall(hwFn, b, TRUE)>> ELSE <<>>, <<>>)
    /\ UNCHANGED <<clientVars, fixedVars, threadVars, syncVars, mStreamState, mMaster,
                   mFramesReceived, mFramesNotUsed, crashed, hwParam>>

\* a client that accepted b, and has not completed it yet, completes it
Outstanding(b) == outstanding[b] > 0

DoneWithFrame_1_0(b) ==
    /\ Outstanding(b)
    /\ DoneWithFrame("doneWithFrame", "doneWithFrame", b)

DoneWithFrame_1_1(b) ==
    /\ Outstanding(b)
    /\ DoneWithFrame("doneWithFrame_1_1", "doneWithFrame_1_1", b)

\* a client completes a frame nobody holds (an id never delivered, or one
\* every recipient has completed already)
DoneWithFrameUntracked(b) ==
    /\ ~Outstanding(b)
    /\ \A i \in 1..Len(mFrames) :
          mFrames[i].frameId = b => mFrames[i].refCount > -MaxUntracked
    /\ DoneWithFrame("doneWithFrame_1_1", "doneWithFrame_1_1", b)

\* ------------------------------------------------------------ deliverFrame
\* a frame from a v1.0 hardware module is handed back at once
DeliverFrame(b) ==
    /\ ~crashed
    /\ hwOwns[b]
    /\ last' = CallArg("deliverFrame", NoClient, b, 0, "void", 0,
                       <<HwCall("doneWithFrame", b, TRUE)>>, <<>>)
    /\ UNCHANGED <<clientVars, fixedVars, threadVars, mFrames, syncVars, mStreamState, mMaster,
                   mFramesReceived, mFramesNotUsed, crashed, hwOwns, outstanding, hwParam>>

\* -------------------------------------------------------- deliverFrame_1_1
\* `timestamp - req.timestamp < kThreshold`
TooSoon(timestamp, req) == timestamp - req.timestamp < kThreshold

\* one turn of the loop over mCurrentRequests; ok: the client takes the frame
FenceStep(st, req, ok, timestamp) ==
    IF ~Alive(req.client) THEN st
    ELSE IF TooSoon(timestamp, req)
    THEN [st EXCEPT !.next = Append(@, req), !.sync = @ + 1]
    ELSE IF ok
    THEN IF req.client \in DOMAIN st.tls
         THEN [st EXCEPT !.tls[req.client].tl = @ + 1,
                         !.acc = Append(@, req.client),
                         !.sent = Append(@, Event(req.client, "frame-accepted"))]
         ELSE \* mTimelines[id] is a null unique_ptr: the call dereferences it
              [st EXCEPT !.crash = TRUE]
    ELSE [st EXCEPT !.sent = Append(@, Event(req.client, "frame-rejected"))]

RECURSIVE FenceTrack(_, _, _, _, _)
FenceTrack(reqs, i, oks, timestamp, st) ==
    IF i > Len(reqs) \/ st.crash THEN st
    ELSE FenceTrack(reqs, i + 1, oks, timestamp,
                    FenceStep(st, reqs[i], oks[i], timestamp))

\* the clients the loop over mClients offers the frame to
DirectTarget(c) == Alive(c) /\ ~(mSyncSupported /\ getVersion(c) > 0)

RECURSIVE DirectTrack(_, _, _)
DirectTrack(list, takers, st) ==
    IF list = <<>> THEN st
    ELSE LET c == Head(list) IN
         DirectTrack(Tail(list), takers,
            IF ~DirectTarget(c) THEN st
            ELSE IF c \in takers
            THEN [st EXCEPT !.acc = Append(@, c),
                            !.sent = Append(@, Event(c, "frame-accepted"))]
            ELSE [st EXCEPT !.sent = Append(@, Event(c, "frame-rejected"))])

\* the first record with refCount == 0, or Len + 1
RECURSIVE FreeSlot(_, _)
FreeSlot(frames, i) ==
    IF i > Len(frames) THEN i
    ELSE IF frames[i].refCount = 0 THEN i
    ELSE FreeSlot(frames, i + 1)

\* a tracking list that counts one client whatever the deliveries
TrackFrameOnce(frames, id, deliveries) ==
    LET i == FreeSlot(frames, 1) IN
    IF i > Len(frames) THEN Append(frames, FrameRecord(id, 1))
    ELSE [frames EXCEPT ![i] = FrameRecord(id, 1)]
\* "Add an entry for this frame in our tracking list."
TrackFrame(frames, id, deliveries) ==
    LET i == FreeSlot(frames, 1) IN
    IF i > Len(frames) THEN Append(frames, FrameRecord(id, deliveries))
    ELSE [frames EXCEPT ![i] = FrameRecord(id, deliveries)]

\* a test that never finds the frame unused
UnusedNever(frameDeliveries) == frameDeliveries < 0
\* `frameDeliveries < 1`
Unused(frameDeliveries) == frameDeliveries < 1

\* the two loops of one call: what the fence track leaves, what both tracks
\* sent, and frameDeliveries
Pass(timestamp, oks, takers) ==
    LET start == [next |-> mCurrentRequests, tls |-> mTimelines, sync |-> 0,
                  acc |-> <<>>, sent |-> <<>>, crash |-> FALSE]
        fenced == IF mSyncSupported
                  THEN FenceTrack(mNextRequests, 1, oks, timestamp, start)
                  ELSE [start EXCEPT !.next = mNextRequests]
        all == DirectTrack(mClients, takers, [fenced EXCEPT !.acc = <<>>])
    IN [fenced |-> fenced, all |-> all,
        frameDeliveries |-> Len(all.acc) + Len(fenced.acc)]

DeliverFrame_1_1(b, timestamp, oks, takers) ==
    LET pass == Pass(timestamp, oks, takers)
        fenced == pass.fenced
        all == pass.all
        frameDeliveries == pass.frameDeliveries
    IN
    /\ ~crashed
    /\ hwOwns[b]
    /\ mFramesReceived < MaxFrames
    /\ IF fenced.crash
       THEN /\ crashed' = TRUE
            /\ last' = CallArg("deliverFrame_1_1", NoClient, b, timestamp, "crash", 0,
                               <<>>, fenced.sent)
            /\ UNCHANGED <<mFrames, mTimelines, mNextRequests, mCurrentRequests,
                           mSyncFrames, mFramesReceived, mFramesNotUsed, hwOwns,
                           outstanding>>
       ELSE /\ UNCHANGED crashed
            /\ mNextRequests' = fenced.next
            /\ mCurrentRequests' = IF mSyncSupported THEN <<>> ELSE mCurrentRequests
            /\ mTimelines' = fenced.tls
            /\ mSyncFrames' = mSyncFrames + fenced.sync
            /\ mFramesReceived' = mFramesReceived + 1
            /\ IF Unused(frameDeliveries)
               THEN /\ mFramesNotUsed' = mFramesNotUsed + 1
                    /\ UNCHANGED outstanding
                    /\ last' = CallArg("deliverFrame_1_1", NoClient, b, timestamp,
                                       "void", 0, <<HwCall("doneWithFrame_1_1", b, TRUE)>>,
                                       all.sent)
                    /\ UNCHANGED <<mFrames, hwOwns>>
               ELSE /\ mFrames' = TrackFrame(mFrames, b, frameDeliveries)
                    /\ hwOwns' = [hwOwns EXCEPT ![b] = FALSE]
                    /\ outstanding' = [outstanding EXCEPT ![b] = frameDeliveries]
                    /\ last' = CallArg("deliverFrame_1_1", NoClient, b, timestamp,
                                       "void", 0, <<>>, all.sent)
                    /\ UNCHANGED mFramesNotUsed
    /\ UNCHANGED <<clientVars, fixedVars, threadVars, mStreamState, mMaster, hwParam>>

\* deliverFrame_1_1 as its thread runs it beside the clients' threads.
\* doneWithFrame takes no lock and mFrameMutex is released at the end of the
\* fence loop, so a client's call can run between the two halves below.
\* First half: both loops; every client that takes the frame holds it.
DeliverOffers(b, timestamp, oks, takers) ==
    LET pass == Pass(timestamp, oks, takers)
        fenced == pass.fenced
        all == pass.all
    IN
    /\ ~crashed
    /\ hwOwns[b]
    /\ delivering = <<>>
    /\ mFramesReceived < MaxFrames
    /\ IF fenced.crash
       THEN /\ crashed' = TRUE
            /\ last' = CallArg("deliverFrame_1_1-offers", NoClient, b, timestamp,
                               "crash", 0, <<>>, fenced.sent)
            /\ UNCHANGED <<mTimelines, mNextRequests, mCurrentRequests, mSyncFrames,
                           mFramesReceived, hwOwns, outstanding, delivering>>
       ELSE /\ UNCHANGED crashed
            /\ mNextRequests' = fenced.next
            /\ mCurrentRequests' = IF mSyncSupported THEN <<>> ELSE mCurrentRequests
            /\ mTimelines' = fenced.tls
            /\ mSyncFrames' = mSyncFrames + fenced.sync
            /\ mFramesReceived' = mFramesReceived + 1
            /\ hwOwns' = [hwOwns EXCEPT ![b] = FALSE]
            /\ outstanding' = [outstanding EXCEPT ![b] = pass.frameDeliveries]
            /\ delivering' = <<[frameId |-> b, timestamp |-> timestamp,
                                frameDeliveries |-> pass.frameDeliveries]>>
            /\ last' = CallArg("deliverFrame_1_1-offers", NoClient, b, timestamp,
                               "pending", 0, <<>>, all.sent)
    /\ UNCHANGED <<clientVars, fixedVars, claiming, mFrames, mFramesNotUsed,
                   mStreamState, mMaster, hwParam>>

\* Second half: the frame goes back unused, or gets its entry in mFrames
DeliverRecord ==
    LET b == delivering[1].frameId
        frameDeliveries == delivering[1].frameDeliveries
    IN
    /\ ~crashed
    /\ delivering # <<>>
    /\ delivering' = <<>>
    /\ IF Unused(frameDeliveries)
       THEN /\ mFramesNotUsed' = mFramesNotUsed + 1
            /\ hwOwns' = [hwOwns EXCEPT ![b] = TRUE]
            /\ last' = CallArg("deliverFrame_1_1-record", NoClient, b,
                               delivering[1].timestamp, "void", 0,
                               <<HwCall("doneWithFrame_1_1", b, TRUE)>>, <<>>)
            /\ UNCHANGED mFrames
       ELSE /\ mFrames' = TrackFrame(mFrames, b, frameDeliveries)
            /\ last' = CallArg("deliverFrame_1_1-record", NoClient, b,
                               delivering[1].timestamp, "void", 0, <<>>, <<>>)
            /\ UNCHANGED <<mFramesNotUsed, hwOwns>>
    /\ UNCHANGED <<clientVars, fixedVars, claiming, syncVars, mStreamState, mMaster,
                   mFramesReceived, crashed, outstanding, hwParam>>

\* ------------------------------------------------------------------ notify
HwEvents == {"STREAM_STOPPED", "TIMEOUT"}

\* "Forward all other events to the clients": one notify per live entry
RECURSIVE Forward(_, _)
Forward(list, ev) ==
    IF list = <<>> THEN <<>>
    ELSE (IF Alive(Head(list)) THEN <<Event(Head(list), ev)>> ELSE <<>>)
         \o Forward(Tail(list), ev)

\* the hardware's event callback
Notify(ev) ==
    /\ ~crashed
    /\ mStreamState' = IF ev = "STREAM_STOPPED" THEN "STOPPED" ELSE mStreamState
    /\ last' = CallArg("notify", NoClient, 0, 0,
                       IF ev = "STREAM_STOPPED" /\ mStreamState # "STOPPING"
                       THEN "void-unexpected" ELSE "void",
                       0, <<>>, Forward(mClients, ev))
    /\ UNCHANGED <<clientVars, fixedVars, threadVars, mFrames, syncVars, mMaster,
                   mFramesReceived, mFramesNotUsed, crashed, hwOwns, outstanding, hwParam>>

\* --------------------------------------------------------- the master role
\* wp<VirtualCamera>::promote()
Promote(ref) == IF ref # NoClient /\ Alive(ref) THEN ref ELSE NoClient

\* a claim that takes the role whoever holds it
SetMasterAlways(master, c) == c
\* the master after setMaster(c): `mMaster == nullptr` compares the stored
\* pointer, alive or not
SetMasterSlot(master, c) == IF master = NoClient THEN c ELSE master

SetMaster(c) ==
    /\ ~crashed
    /\ life[c] = "live"
    /\ mMaster' = SetMasterSlot(mMaster, c)
    /\ last' = Call("setMaster", c,
                    IF mMaster = NoClient THEN "OK" ELSE "OWNERSHIP_LOST", <<>>, <<>>)
    /\ UNCHANGED <<clientVars, fixedVars, threadVars, mFrames, syncVars, mStreamState,
                   mFramesReceived, mFramesNotUsed, crashed, hwOwns, outstanding, hwParam>>

\* setMaster as two clients' threads run it: the function takes no lock, so
\* another call can run between the test of mMaster and the assignment.
\* The test `mMaster == nullptr`
SetMasterCheck(c) ==
    /\ ~crashed
    /\ life[c] = "live"
    /\ claiming[c] = "idle"
    /\ claiming' = [claiming EXCEPT ![c] = IF mMaster = NoClient THEN "free" ELSE "taken"]
    /\ last' = Call("setMaster-check", c, "pending", <<>>, <<>>)
    /\ UNCHANGED <<clientVars, fixedVars, delivering, mFrames, syncVars, mStreamState,
                   mMaster, mFramesReceived, mFramesNotUsed, crashed, hwOwns,
                   outstanding, hwParam>>

\* The branch the test chose: the assignment and OK, or OWNERSHIP_LOST
SetMasterFinish(c) ==
    /\ ~crashed
    /\ claiming[c] \in {"free", "taken"}
    /\ mMaster' = IF claiming[c] = "free" THEN c ELSE mMaster
    /\ claiming' = [claiming EXCEPT ![c] = IF @ = "free" THEN "OK" ELSE "OWNERSHIP_LOST"]
    /\ last' = Call("setMaster", c, claiming'[c], <<>>, <<>>)
    /\ UNCHANGED <<clientVars, fixedVars, delivering, mFrames, syncVars, mStreamState,
                   mFramesReceived, mFramesNotUsed, crashed, hwOwns, outstanding,
                   hwParam>>

ForceMaster(c) ==
    LET prevMaster == Promote(mMaster) IN
    /\ ~crashed
    /\ life[c] = "live"
    /\ mMaster' = IF prevMaster = c THEN mMaster ELSE c
    /\ last' = Call("forceMaster", c, "OK", <<>>,
                    IF prevMaster # c /\ prevMaster # NoClient
                    THEN <<Event(prevMaster, "MASTER_RELEASED")>> ELSE <<>>)
    /\ UNCHANGED <<clientVars, fixedVars, threadVars, mFrames, syncVars, mStreamState,
                   mFramesReceived, mFramesNotUsed, crashed, hwOwns, outstanding, hwParam>>

\* a release that any client may make
IsMasterAnyone(c) == TRUE
\* `mMaster.promote() != virtualCamera`, negated
IsMaster(c) == Promote(mMaster) = c

UnsetMaster(c) ==
    /\ ~crashed
    /\ life[c] = "live"
    /\ IF ~IsMaster(c)
       THEN /\ last' = Call("unsetMaster", c, "INVALID_ARG", <<>>, <<>>)
            /\ UNCHANGED mMaster
       ELSE /\ mMaster' = NoClient
            /\ last' = Call("unsetMaster", c, "OK", <<>>,
                            Forward(mClients, "MASTER_RELEASED"))
    /\ UNCHANGED <<clientVars, fixedVars, threadVars, mFrames, syncVars, mStreamState,
                   mFramesReceived, mFramesNotUsed, crashed, hwOwns, outstanding, hwParam>>

\* ----------------------------------------------------------- parameters
ParamValues == {0, 1, 2}

\* a gate that lets every caller write
MayWriteAnyone(c) == TRUE
\* `virtualCamera == mMaster.promote()`
MayWrite(c) == c = Promote(mMaster)

\* hwOk: the hardware call (the write for the master, the read for the
\* others) reports OK
SetParameter(c, value, hwOk) ==
    /\ ~crashed
    /\ life[c] = "live"
    /\ IF MayWrite(c)
       THEN /\ hwParam' = IF hwOk THEN value ELSE hwParam
            /\ last' = CallArg("setParameter", c, value, 0,
                               IF hwOk THEN "OK" ELSE "UNDERLYING_SERVICE_ERROR",
                               hwParam',
                               <<HwCall("setIntParameter", value, hwOk)>>,
                               IF hwOk THEN Forward(mClients, "PARAMETER_CHANGED")
                               ELSE <<>>)
       ELSE /\ UNCHANGED hwParam
            /\ last' = CallArg("setParameter", c, value, 0, "INVALID_ARG",
                               IF hwOk THEN hwParam ELSE value,
                               <<HwCall("getIntParameter", 0, hwOk)>>, <<>>)
    /\ UNCHANGED <<clientVars, fixedVars, threadVars, mFrames, syncVars, mStreamState, mMaster,
                   mFramesReceived, mFramesNotUsed, crashed, hwOwns, outstanding>>

\* value: what the caller's variable held before the call
GetParameter(c, value, hwOk) ==
    /\ ~crashed
    /\ life[c] = "live"
    /\ last' = CallArg("getParameter", c, value, 0,
                       IF hwOk THEN "OK" ELSE "UNDERLYING_SERVICE_ERROR",
                       IF hwOk THEN hwParam ELSE value,
                       <<HwCall("getIntParameter", 0, hwOk)>>, <<>>)
    /\ UNCHANGED <<clientVars, fixedVars, threadVars, mFrames, syncVars, mStreamState, mMaster,
                   mFramesReceived, mFramesNotUsed, crashed, hwOwns, outstanding, hwParam>>

\* ------------------------------------------------------ specifications
Membership ==
    \/ \E c \in Clients \cup {NoClient}, hwOk \in BOOLEAN : OwnVirtualCamera(c, hwOk)
    \/ \E c \in Clients \cup {NoClient}, hwOk \in BOOLEAN : DisownVirtualCamera(c, hwOk)
    \/ \E c \in Clients : ClientDies(c)

Delivery ==
    \E b \in Buffers, timestamp \in FrameTimes, takers \in SUBSET Clients :
        \E oks \in [1..Len(mNextRequests) -> BOOLEAN] :
            DeliverFrame_1_1(b, timestamp, oks, takers)

Frames ==
    \/ Delivery
    \/ \E b \in Buffers : DeliverFrame(b)
    \/ \E b \in Buffers : DoneWithFrame_1_0(b)
    \/ \E b \in Buffers : DoneWithFrame_1_1(b)
    \/ \E nbuf \in 0..1, hwOk \in BOOLEAN, added \in 0..1 :
        ImportExternalBuffers(nbuf, hwOk, added)

\* the frame path, with clients that complete only the frames they hold
Next == Membership \/ Frames
Spec == Init /\ [][Next]_vars

\* the frame path, with clients that also complete frames they do not hold
NextUntracked ==
    \/ \E c \in Clients, hwOk \in BOOLEAN : OwnVirtualCamera(c, hwOk)
    \/ Delivery
    \/ \E b \in Buffers : DoneWithFrame_1_1(b)
    \/ \E b \in Buffers : DoneWithFrameUntracked(b)
SpecUntracked == Init /\ [][NextUntracked]_vars

\* the fence track: requests, frames and the ends of streams
NextSync ==
    \/ Membership
    \/ \E c \in Clients, lastTimestamp \in RequestTimes :
        RequestNewFrame(c, lastTimestamp)
    \/ Delivery
    \/ \E c \in Clients, hwOk \in BOOLEAN : ClientStreamStarting(c, hwOk)
    \/ \E c \in Clients : ClientStreamEnding(c)
SpecSync == Init /\ [][NextSync]_vars

\* the stream state machine
NextStream ==
    \/ Membership
    \/ \E c \in Clients, hwOk \in BOOLEAN : ClientStreamStarting(c, hwOk)
    \/ \E c \in Clients : ClientStreamEnding(c)
    \/ \E ev \in HwEvents : Notify(ev)
SpecStream == Init /\ [][NextStream]_vars

\* the master role and the parameters it guards
NextMaster ==
    \/ Membership
    \/ \E c \in Clients : SetMaster(c)
    \/ \E c \in Clients : ForceMaster(c)
    \/ \E c \in Clients : UnsetMaster(c)
    \/ \E c \in Clients, value \in ParamValues, hwOk \in BOOLEAN :
        SetParameter(c, value, hwOk)
    \/ \E c \in Clients, value \in ParamValues, hwOk \in BOOLEAN :
        GetParameter(c, value, hwOk)
    \/ \E ev \in HwEvents : Notify(ev)
SpecMaster == Init /\ [][NextMaster]_vars

\* frame delivery on the hardware's thread beside the clients' completions
OfferDelivery ==
    \E b \in Buffers, timestamp \in FrameTimes, takers \in SUBSET Clients :
        \E oks \in [1..Len(mNextRequests) -> BOOLEAN] :
            DeliverOffers(b, timestamp, oks, takers)

NextRace ==
    \/ Membership
    \/ OfferDelivery
    \/ DeliverRecord
    \/ \E b \in Buffers : DoneWithFrame_1_0(b)
    \/ \E b \in Buffers : DoneWithFrame_1_1(b)
SpecRace == Init /\ [][NextRace]_vars

\* the claims of the master role by clients on threads of their own
NextMasterRace ==
    \/ Membership
    \/ \E c \in Clients : SetMasterCheck(c)
    \/ \E c \in Clients : SetMasterFinish(c)
SpecMasterRace == Init /\ [][NextMasterRace]_vars

\* --------------------------------------------------------------- claims
\* what the log of a call shows
DoneOps == {"doneWithFrame", "doneWithFrame_1_1"}
\* how often the call handed buffer b back to the hardware
Returns(call, b) ==
    Cardinality({i \in 1..Len(call.hw) :
                    call.hw[i].f \in DoneOps /\ call.hw[i].arg = b})
\* how often the call sent client c the event (or frame offer) ev
Notified(call, c, ev) ==
    Cardinality({i \in 1..Len(call.sent) : call.sent[i] = Event(c, ev)})
\* c is in the membership list and its reference still resolves
AttachedLive(c) == c \in Range(mClients) /\ life[c] # "dead"
\* the client the master reference resolves to
CurrentMaster == IF mMaster # NoClient /\ life[mMaster] # "dead" THEN mMaster ELSE NoClient

\* C1: a buffer that n >= 1 clients accepted stays with the clients, whatever
\* else is called, until the n-th completion call for it; that call, and no
\* other, hands it back to the hardware, once.
C1_ReturnedByLastDone ==
    [][\A b \in Buffers :
          outstanding[b] > 0 =>
              /\ ~hwOwns[b]
              /\ IF outstanding[b] = 1 /\ last'.op \in DoneOps /\ last'.arg = b
                 THEN Returns(last', b) = 1 /\ Len(last'.hw) = 1 /\ hwOwns'[b]
                 ELSE Returns(last', b) = 0 /\ ~hwOwns'[b]]_vars

\* two clients accepted a frame and the first of them has completed it: the
\* buffer is still out
C1_FirstDoneKeepsBuffer ==
    /\ last.op \in DoneOps
    /\ outstanding[last.arg] = 1
    /\ ~hwOwns[last.arg]
    /\ last.hw = <<>>

\* C2: no record's count ever goes below zero, and a completion call for a
\* buffer id that no record tracks with a count above zero changes no count
\* and hands nothing back to the hardware.
C2_NoUnderflow ==
    [][/\ \A i \in 1..Len(mFrames') : mFrames'[i].refCount >= 0
       /\ (/\ last'.op \in DoneOps
           /\ ~\E i \in 1..Len(mFrames) :
                 mFrames[i].frameId = last'.arg /\ mFrames[i].refCount > 0)
          => mFrames' = mFrames /\ last'.hw = <<>>]_vars

\* a record whose count went below zero
C2_CountBelowZero ==
    /\ last.op \in DoneOps
    /\ \E i \in 1..Len(mFrames) :
          mFrames[i].frameId = last.arg /\ mFrames[i].refCount < 0

\* C3: once the client that asked for a frame has ended its stream or has been
\* detached, no fence of it is left unsignalled: the call that tears the
\* client down resolves whatever the client was waiting on.
Unresolved(c) == c \in DOMAIN mTimelines /\ mTimelines[c].fence > mTimelines[c].tl

C3_TeardownResolvesFence ==
    last.op \in {"disownVirtualCamera", "clientStreamEnding"}
        => ~Unresolved(last.client)

\* the client ended its stream, holds a fence nothing signalled, and no
\* request of it is left that a later frame could serve
C3_FenceLeftBehind ==
    /\ last.op = "clientStreamEnding"
    /\ Unresolved(last.client)
    /\ \A i \in 1..Len(mNextRequests) : mNextRequests[i].client # last.client

\* C4: setMaster by a client while another client is master reports the
\* conflict and leaves the master in place; forceMaster by a client that is
\* not the master makes it the master and sends the previous master one
\* MASTER_RELEASED; forceMaster by the master changes and sends nothing.
C4_MasterArbitration ==
    [][/\ (last'.op = "setMaster" /\ CurrentMaster # NoClient)
            => last'.ret = "OWNERSHIP_LOST" /\ mMaster' = mMaster
       /\ last'.op = "forceMaster"
            => IF CurrentMaster = last'.client
               THEN mMaster' = mMaster /\ last'.sent = <<>>
               ELSE /\ mMaster' = last'.client
                    /\ last'.ret = "OK"
                    /\ last'.sent = IF CurrentMaster # NoClient
                                    THEN <<Event(CurrentMaster, "MASTER_RELEASED")>>
                                    ELSE <<>>]_vars

\* a client took the role from a live master, which was told so
C4_RoleStolen ==
    /\ last.op = "forceMaster"
    /\ mMaster = last.client
    /\ Len(last.sent) = 1
    /\ last.sent[1].ev = "MASTER_RELEASED"
    /\ last.sent[1].to # last.client

\* C5: attach and detach ask the hardware for max(1, the allowances of the
\* live membership entries + delta) buffers, delta being the new client's
\* allowance on attach and 0 on detach; the count asked for is never below 1.
RECURSIVE DeclaredByLive(_, _)
DeclaredByLive(list, positions) ==
    IF positions = {} THEN 0
    ELSE LET i == CHOOSE i \in positions : TRUE IN
         (IF life[list[i]] = "dead" THEN 0 ELSE getAllowedBuffers(list[i]))
         + DeclaredByLive(list, positions \ {i})

Demand(list, delta) ==
    LET n == DeclaredByLive(list, 1..Len(list)) + delta IN IF n > 1 THEN n ELSE 1

C5_DemandAskedOfHardware ==
    [][/\ (last'.op = "ownVirtualCamera" /\ last'.ret = "true")
            => /\ Len(last'.hw) = 1
               /\ last'.hw[1].f = "setMaxFramesInFlight"
               /\ last'.hw[1].arg = Demand(mClients, getAllowedBuffers(last'.client))
       /\ (last'.op = "disownVirtualCamera" /\ last'.client # NoClient)
            => /\ Len(last'.hw) = 1
               /\ last'.hw[1].f = "setMaxFramesInFlight"
               /\ last'.hw[1].arg = Demand(mClients', 0)
               /\ last'.hw[1].arg >= 1]_vars

\* the only client, whose allowance is 2, was detached: the floor of 1 is asked
C5_FloorAfterLastDetach ==
    /\ last.op = "disownVirtualCamera"
    /\ last.client # NoClient
    /\ getAllowedBuffers(last.client) = 2
    /\ mClients = <<>>
    /\ last.hw[1].arg = 1

\* C6: when a frame arrives and no client accepts it (nobody to offer it to,
\* every client rejecting, or every request rate-limited), the call hands the
\* buffer back to the hardware once, counts one frame not used and leaves the
\* table of frame records as it was.
C6_UnusedFrameReturned ==
    [][(/\ last'.op = "deliverFrame_1_1"
        /\ last'.ret = "void"
        /\ \A i \in 1..Len(last'.sent) : last'.sent[i].ev # "frame-accepted")
       => /\ Returns(last', last'.arg) = 1
          /\ Len(last'.hw) = 1
          /\ hwOwns'[last'.arg]
          /\ mFramesNotUsed' = mFramesNotUsed + 1
          /\ mFrames' = mFrames]_vars

\* a frame came too soon for every pending request and went straight back
C6_AllRateLimited ==
    /\ last.op = "deliverFrame_1_1"
    /\ mSyncSupported
    /\ last.sent = <<>>
    /\ mNextRequests # <<>>
    /\ mSyncFrames > 0
    /\ mFramesNotUsed > 0
    /\ Returns(last, last.arg) = 1

\* C7: for each pending request of a live client and an arriving frame: if the
\* frame's timestamp less the request's is below the threshold, the frame is
\* not offered, the request stays queued as it is and the sync-skip counter
\* goes up by one; otherwise the frame is offered and the request leaves the
\* queue, and on acceptance the client's timeline advances by one.
Pending(r) == life[r.client] # "dead"
Early(r, ts) == ts - r.timestamp < kThreshold

C7_RateLimit ==
    [][(last'.op = "deliverFrame_1_1" /\ mSyncSupported) =>
        LET ts == last'.ts
            kept == SelectSeq(mNextRequests, LAMBDA r : Pending(r) /\ Early(r, ts))
            due(c) == Len(SelectSeq(mNextRequests,
                          LAMBDA r : r.client = c /\ Pending(r) /\ ~Early(r, ts)))
            took(c) == Notified(last', c, "frame-accepted")
            refused(c) == Notified(last', c, "frame-rejected")
        IN
        /\ last'.ret = "void"
        /\ mNextRequests' = kept
        /\ mSyncFrames' = mSyncFrames + Len(kept)
        /\ \A c \in Clients :
              getVersion(c) > 0 =>
                  /\ took(c) + refused(c) = due(c)
                  /\ took(c) > 0 =>
                        /\ c \in DOMAIN mTimelines
                        /\ c \in DOMAIN mTimelines'
                        /\ mTimelines'[c].tl = mTimelines[c].tl + took(c)]_vars

\* the frame path died on the missing timeline of a client that is streaming
\* again and took the frame offered for a request its stream end left behind
C7_DiedOnAcceptance ==
    /\ crashed
    /\ last.op = "deliverFrame_1_1"
    /\ last.ts >= kThreshold
    /\ \E i \in 1..Len(mNextRequests) :
          /\ streaming[mNextRequests[i].client]
          /\ mNextRequests[i].client \notin DOMAIN mTimelines

\* C8: the stream state moves only STOPPED -> RUNNING on a stream start (with
\* the hardware start call), RUNNING -> STOPPING on a stream end (with the
\* hardware stop call) and to STOPPED on the hardware's stream-stopped event;
\* the hardware stop call is made only while the stream is RUNNING.
HwCalls(call, f) == Cardinality({i \in 1..Len(call.hw) : call.hw[i].f = f})

C8_StreamTransitions ==
    [][/\ mStreamState' # mStreamState =>
            \/ /\ mStreamState = "STOPPED" /\ mStreamState' = "RUNNING"
               /\ last'.op = "clientStreamStarting"
               /\ HwCalls(last', "startVideoStream") = 1
            \/ /\ mStreamState = "RUNNING" /\ mStreamState' = "STOPPING"
               /\ last'.op = "clientStreamEnding"
               /\ HwCalls(last', "stopVideoStream") = 1
            \/ /\ mStreamState' = "STOPPED"
               /\ last'.op = "notify"
       /\ HwCalls(last', "stopVideoStream") > 0 => mStreamState = "RUNNING"]_vars

\* C9 as written: a caller that is not the master gets the hardware's current
\* value back, whatever the hardware answers to the read.
C9_NonMasterGetsCurrentValue ==
    [][(last'.op = "setParameter" /\ CurrentMaster # last'.client)
        => /\ HwCalls(last', "setIntParameter") = 0
           /\ last'.sent = <<>>
           /\ last'.ret # "OK"
           /\ hwParam' = hwParam
           /\ last'.out = hwParam]_vars

\* C9: only the master's setParameter reaches the hardware write; any other
\* caller writes nothing, causes no notification, gets a result that is not OK
\* and gets the hardware's current value if the hardware read succeeds (its own
\* value untouched if the read fails).  A successful write by the master sends
\* each live attached client one PARAMETER_CHANGED; a failed one sends none.
C9_SetParameterGate ==
    [][last'.op = "setParameter" =>
        IF CurrentMaster = last'.client
        THEN /\ HwCalls(last', "setIntParameter") = 1
             /\ last'.hw[1].arg = last'.arg
             /\ \A c \in Clients :
                   Notified(last', c, "PARAMETER_CHANGED")
                       = IF last'.ret = "OK" /\ AttachedLive(c) THEN 1 ELSE 0
             /\ Len(last'.sent) = IF last'.ret = "OK"
                                  THEN Cardinality({c \in Clients : AttachedLive(c)})
                                  ELSE 0
        ELSE /\ HwCalls(last', "setIntParameter") = 0
             /\ HwCalls(last', "getIntParameter") = 1
             /\ last'.sent = <<>>
             /\ last'.ret # "OK"
             /\ hwParam' = hwParam
             /\ last'.out = IF last'.hw[1].ok THEN hwParam ELSE last'.arg]_vars

\* a caller that is not the master asked for a value, the hardware read
\* failed, and the caller is left with the value it asked for
C9_ReadFailedValueKept ==
    /\ last.op = "setParameter"
    /\ last.ret = "INVALID_ARG"
    /\ ~last.hw[1].ok
    /\ last.out = last.arg
    /\ last.out # hwParam

\* C10: unsetMaster by the master empties the master slot and sends each live
\* attached client one MASTER_RELEASED; by anyone else it returns an error,
\* leaves the slot as it is and sends nothing.
C10_UnsetMaster ==
    [][last'.op = "unsetMaster" =>
        IF CurrentMaster = last'.client
        THEN /\ last'.ret = "OK"
             /\ mMaster' = NoClient
             /\ \A c \in Clients :
                   Notified(last', c, "MASTER_RELEASED")
                       = IF AttachedLive(c) THEN 1 ELSE 0
             /\ Len(last'.sent) = Cardinality({c \in Clients : AttachedLive(c)})
        ELSE /\ last'.ret = "INVALID_ARG"
             /\ mMaster' = mMaster
             /\ last'.sent = <<>>]_vars

\* the master gave the role up and both attached clients were told
C10_ReleaseBroadcast ==
    /\ last.op = "unsetMaster"
    /\ last.ret = "OK"
    /\ mMaster = NoClient
    /\ Len(last.sent) = 2

\* C11: an attach the hardware refuses the buffers for returns failure and
\* leaves the session as it was: the client is not in the membership list, no
\* timeline was made for it and the table of frame records is unchanged.
C11_RefusedAttachChangesNothing ==
    [][(/\ last'.op = "ownVirtualCamera"
        /\ last'.client # NoClient
        /\ ~last'.hw[1].ok)
       => /\ last'.ret = "false"
          /\ mClients' = mClients
          /\ last'.client \notin Range(mClients')
          /\ mTimelines' = mTimelines
          /\ last'.client \notin DOMAIN mTimelines'
          /\ mFrames' = mFrames
          /\ UNCHANGED <<mNextRequests, mCurrentRequests, mStreamState, mMaster,
                         mFramesReceived, mFramesNotUsed, mSyncFrames>>]_vars

\* an attach was refused while the table held a record no client uses any
\* more, which a resize would have dropped
C11_RefusedWithIdleRecord ==
    /\ last.op = "ownVirtualCamera"
    /\ last.ret = "false"
    /\ last.client # NoClient
    /\ mSyncSupported
    /\ \E i \in 1..Len(mFrames) : mFrames[i].refCount = 0

\* C12: detaching a client that is attached takes it out of the membership
\* list, also when the hardware refuses the new buffer count; in that case the
\* table of frame records is unchanged, and in no case is a record that is
\* still in use lost.
C12_DetachAlwaysRemoves ==
    [][(last'.op = "disownVirtualCamera" /\ last'.client \in Range(mClients))
       => /\ last'.client \notin Range(mClients')
          /\ \A c \in Clients : c # last'.client =>
                (c \in Range(mClients') <=> c \in Range(mClients))
          /\ ~last'.hw[1].ok => mFrames' = mFrames
          /\ \A i \in 1..Len(mFrames) :
                mFrames[i].refCount > 0 =>
                    \E j \in 1..Len(mFrames') : mFrames'[j] = mFrames[i]]_vars

\* a client was detached, the hardware refused the smaller buffer count, and a
\* frame is still out with a client
C12_DetachedDespiteRefusal ==
    /\ last.op = "disownVirtualCamera"
    /\ last.client # NoClient
    /\ ~last.hw[1].ok
    /\ last.client \notin Range(mClients)
    /\ \E i \in 1..Len(mFrames) : mFrames[i].refCount > 0

\* C13: when clientStreamEnding(c) has returned, whether or not c had a request
\* queued and however many, no request of c is queued, c has no timeline and
\* c is not in the membership list.
RequestsOf(c) == {i \in 1..Len(mNextRequests) : mNextRequests[i].client = c}

C13_StreamEndClearsClient ==
    last.op = "clientStreamEnding"
        => /\ RequestsOf(last.client) = {}
           /\ last.client \notin DOMAIN mTimelines
           /\ last.client \notin Range(mClients)

\* the stream of a client that had asked twice has ended: its timeline is
\* gone, one of its requests is still queued
C13_RequestLeftBehind ==
    /\ last.op = "clientStreamEnding"
    /\ RequestsOf(last.client) # {}
    /\ last.client \notin DOMAIN mTimelines

\* C14: one call of deliverFrame_1_1 offers the frame to each live client at
\* most once, on the fence track or on the direct track, and the count stored
\* for the frame is the number of clients that accepted it.
Offers(call, c) ==
    Notified(call, c, "frame-accepted") + Notified(call, c, "frame-rejected")

C14_OneOfferPerClient ==
    [][(last'.op = "deliverFrame_1_1" /\ last'.ret = "void")
       => /\ \A c \in Clients : Offers(last', c) <= 1
          /\ \A c \in Clients : Offers(last', c) > 0 => life[c] # "dead"
          /\ LET takers == {c \in Clients : Notified(last', c, "frame-accepted") > 0}
             IN takers # {} =>
                  \E i \in 1..Len(mFrames') :
                      mFrames'[i] = FrameRecord(last'.arg, Cardinality(takers))]_vars

\* one frame was taken twice by the same client and is counted twice
C14_CountedTwice ==
    /\ last.op = "deliverFrame_1_1"
    /\ \E c \in Clients : Notified(last, c, "frame-accepted") = 2
    /\ \E i \in 1..Len(mFrames) : mFrames[i] = FrameRecord(last.arg, 2)

\* C15: the queue of pending requests never holds two requests of one client.
C15_OneRequestPerClient ==
    \A c \in Clients : Cardinality(RequestsOf(c)) <= 1

\* C16: a resize of the table of frame records (attach, detach, import of
\* external buffers) keeps every record that is in use, with its buffer id and
\* count, also when there are more of them than the new buffer count.
InUse(frames) == SelectSeq(frames, LAMBDA rec : rec.refCount > 0)

C16_ResizeKeepsRecordsInUse ==
    [][last'.op \in {"ownVirtualCamera", "disownVirtualCamera", "importExternalBuffers"}
       => /\ InUse(mFrames') = InUse(mFrames)
          /\ UNCHANGED <<hwOwns, outstanding>>]_vars

\* the last client was detached, one buffer was asked of the hardware, and the
\* table still holds two records in use
C16_MoreInUseThanAsked ==
    /\ last.op = "disownVirtualCamera"
    /\ last.client # NoClient
    /\ last.hw[1].ok
    /\ last.hw[1].arg = 1
    /\ Len(InUse(mFrames)) = 2
    /\ Len(mFrames) = 2

\* C17: on a session that supports synchronization every requestNewFrame finds
\* a timeline for its client, also after a clientStreamEnding that discarded
\* the client's timeline: the call returns a fence and queues one request.
C17_RequestFindsTimeline ==
    [][(last'.op = "requestNewFrame" /\ mSyncSupported)
       => /\ last'.ret = "fence"
          /\ last'.client \in DOMAIN mTimelines'
          /\ mNextRequests' =
                Append(mNextRequests, FrameRequest(last'.client, last'.ts))]_vars

\* a client whose stream end discarded its timeline asked for a frame again
C17_DiedOnRequest ==
    /\ crashed
    /\ last.op = "requestNewFrame"
    /\ life[last.client] = "live"
    /\ last.client \notin DOMAIN mTimelines

\* C20: when clientStreamStarting returns success the stream state is RUNNING
\* and the hardware has been told to start since it was last told to stop
\* (this call told it, or the stream was RUNNING already: the state is set to
\* RUNNING only together with the start call, and every stop call sets
\* STOPPING); also when the call arrives while the state is STOPPING.
C20_SuccessfulStartRuns ==
    [][(last'.op = "clientStreamStarting" /\ last'.ret = "OK")
       => /\ mStreamState' = "RUNNING"
          /\ \/ HwCalls(last', "startVideoStream") = 1
             \/ mStreamState = "RUNNING"]_vars

\* a client was told its stream has started while the hardware is stopping
C20_StartedWhileStopping ==
    /\ last.op = "clientStreamStarting"
    /\ last.ret = "OK"
    /\ last.hw = <<>>
    /\ mStreamState = "STOPPING"
    /\ streaming[last.client]

\* ---- C18
\* no delivery of frame b is between its offers and its bookkeeping
Settled(b) == delivering = <<>> \/ delivering[1].frameId # b

\* C18: a completion of buffer B that a client issues after it accepted B,
\* and before the delivery has written B's record, is not lost: once the
\* delivery is over and every client that accepted B has completed it, the
\* hardware has B back and no record of B has a refCount above zero.
C18_CompletionNotLost ==
    \A b \in Buffers :
        (~crashed /\ Settled(b) /\ outstanding[b] = 0)
            => /\ hwOwns[b]
               /\ \A i \in 1..Len(mFrames) :
                      mFrames[i].frameId = b => mFrames[i].refCount <= 0

\* C18, its case: a client completed the frame while the delivery had not
\* written the record yet, and the call did not find the frame
C18_DoneBeforeRecord ==
    /\ delivering # <<>>
    /\ last.op \in DoneOps
    /\ last.arg = delivering[1].frameId
    /\ last.ret = "void-unknown-id"
    /\ outstanding[last.arg] < delivering[1].frameDeliveries

\* ---- C19
\* the clients whose setMaster returned OK
ToldSuccess == {c \in Clients : claiming[c] = "OK"}

\* C19: of the setMaster calls that clients make at the same time on an empty
\* slot at most one returns OK, and once the calls have returned the client
\* that was told OK is the one in the slot.
C19_OneClaimWins ==
    /\ Cardinality(ToldSuccess) <= 1
    /\ (\A c \in Clients : claiming[c] \notin {"free", "taken"})
          => \A c \in ToldSuccess : mMaster = c

\* C19, its case: two calls have both found the slot empty and neither has
\* stored its client yet
C19_BothSawEmptySlot ==
    /\ mMaster = NoClient
    /\ Cardinality({c \in Clients : claiming[c] = "free"}) >= 2

\* ---- C21
\* C21: setMaster reports the role as owned only while a live master exists:
\* when the client in the master slot has been destroyed without a call of
\* unsetMaster, setMaster by another client returns OK and makes that client
\* the master.
C21_DeadMasterGivesWay ==
    [][last'.op = "setMaster"
          => /\ last'.ret = "OWNERSHIP_LOST" => CurrentMaster # NoClient
             /\ (mMaster # NoClient /\ ~Alive(mMaster) /\ last'.client # mMaster)
                   => last'.ret = "OK" /\ mMaster' = last'.client]_vars

\* C21, its case: a client has called setMaster while the slot held a client
\* that died as master, and was refused
C21_RefusedByDeadMaster ==
    /\ last.op = "setMaster"
    /\ last.ret = "OWNERSHIP_LOST"
    /\ mMaster # NoClient
    /\ life[mMaster] = "dead"
    /\ last.client # mMaster


====
